---------------------------- MODULE Spec2Model ----------------------------
(***************************************************************************)
(* Model of CsvIo (src/csv_io.py): dated shard files are written per       *)
(* category (users, stories) and concat_csv merges every discovered shard  *)
(* into one aggregate file, deduplicated by a composite key.               *)
(*                                                                         *)
(* Text is modelled at character level: a Python str is a sequence of      *)
(* one-character strings, a file is the sequence of characters it holds.   *)
(* A category root is the list of its files in os.walk order, which is     *)
(* taken to be a function of the directory tree: it is chosen when a file  *)
(* is created and stays put until the tree changes.                        *)
(*                                                                         *)
(* The two category roots share no state and every operation touches       *)
(* exactly one of them, so a behaviour follows one root: category is the   *)
(* root it follows, fs the tree under it.                                  *)
(***************************************************************************)
EXTENDS Integers, Sequences, FiniteSets, TLC

VARIABLES category, today, fs, budget, last, hist

vars == <<category, today, fs, budget, last, hist>>

-----------------------------------------------------------------------------
(* Bounds of the model *)

\* Number of calendar days the clock runs through.
MaxDays == 2

\* Number of changes made to the directory trees (shard writes, files put
\* there by hand, permission changes, removals).
MaxChanges == 2

-----------------------------------------------------------------------------
(* Text *)

LF == "\n"
Comma == ","
Quote == "\""
Dash == "-"

\* The characters of the model in code-point order (str comparison, sorted()).
Ascii ==
  << LF, " ", Quote, Comma, Dash, ".",
     "0", "1", "2", "3", "4", "5", "6", "7", "8", "9",
     "A", "B", "C", "D", "E", "I", "K", "L", "M", "N", "O", "R", "S", "T", "U", "Y",
     "_", "a", "b", "c", "d", "e", "i", "l", "o", "r", "s", "t", "u", "v", "x", "y", "z" >>

Ord(c) == CHOOSE i \in 1..Len(Ascii) : Ascii[i] = c

\* str.strip() with no argument removes these (of the characters modelled).
Whitespace == {" ", LF}

\* a < b for Python str: lexicographic by code point, a proper prefix first.
RECURSIVE LessFrom(_, _, _)
LessFrom(a, b, i) ==
  IF i > Len(b) THEN FALSE
  ELSE IF i > Len(a) THEN TRUE
  ELSE IF a[i] = b[i] THEN LessFrom(a, b, i + 1)
  ELSE Ord(a[i]) < Ord(b[i])

StrLess(a, b) == LessFrom(a, b, 1)

\* sub in text
HasSub(text, sub) ==
  \E i \in 0..(Len(text) - Len(sub)) :
    \A j \in 1..Len(sub) : text[i + j] = sub[j]

\* text.replace(ch, '')
Remove(text, ch) == SelectSeq(text, LAMBDA c : c # ch)

\* text.split(sep): the parts between the separators, at least one part.
RECURSIVE SplitFrom(_, _, _, _)
SplitFrom(text, sep, i, cur) ==
  IF i > Len(text) THEN <<cur>>
  ELSE IF text[i] = sep THEN <<cur>> \o SplitFrom(text, sep, i + 1, <<>>)
  ELSE SplitFrom(text, sep, i + 1, Append(cur, text[i]))

Split(text, sep) == SplitFrom(text, sep, 1, <<>>)

\* sep.join(parts)
RECURSIVE Join(_, _)
Join(parts, sep) ==
  IF parts = <<>> THEN <<>>
  ELSE IF Len(parts) = 1 THEN parts[1]
  ELSE parts[1] \o <<sep>> \o Join(Tail(parts), sep)

\* text.strip()
Strip(text) ==
  LET keep == {i \in 1..Len(text) : text[i] \notin Whitespace}
  IN IF keep = {} THEN <<>>
     ELSE LET lo == CHOOSE i \in keep : \A j \in keep : i <= j
              hi == CHOOSE i \in keep : \A j \in keep : j <= i
          IN SubSeq(text, lo, hi)

\* f.readlines(): the lines of the file, each with its line break, the last
\* one without when the file does not end in one.
RECURSIVE LinesFrom(_, _, _)
LinesFrom(text, i, cur) ==
  IF i > Len(text) THEN (IF cur = <<>> THEN <<>> ELSE <<cur>>)
  ELSE IF text[i] = LF THEN <<Append(cur, LF)>> \o LinesFrom(text, i + 1, <<>>)
  ELSE LinesFrom(text, i + 1, Append(cur, text[i]))

ReadLines(text) == LinesFrom(text, 1, <<>>)

Digits == <<"0", "1", "2", "3", "4", "5", "6", "7", "8", "9">>

\* str(n) for an int
RECURSIVE NatToStr(_)
NatToStr(n) ==
  IF n < 10 THEN <<Digits[n + 1]>>
  ELSE Append(NatToStr(n \div 10), Digits[(n % 10) + 1])

IntToStr(n) == IF n < 0 THEN <<Dash>> \o NatToStr(0 - n) ELSE NatToStr(n)

\* The elements of a sequence
Range(s) == {s[i] : i \in 1..Len(s)}

\* Variant of Sorted: descending order (sorted(keys, reverse=True)).
RECURSIVE SortedReverse(_)
SortedReverse(S) ==
  IF S = {} THEN <<>>
  ELSE LET m == CHOOSE x \in S : \A y \in S : x = y \/ StrLess(y, x)
       IN <<m>> \o SortedReverse(S \ {m})

\* sorted(keys)
RECURSIVE Sorted(_)
Sorted(S) ==
  IF S = {} THEN <<>>
  ELSE LET m == CHOOSE x \in S : \A y \in S : x = y \/ StrLess(x, y)
       IN <<m>> \o Sorted(S \ {m})

-----------------------------------------------------------------------------
(* CsvIo.__init__ *)

ext_csv == <<".", "c", "s", "v">>
users_dir == "users"
stories_dir == "stories"
users_aggregate == <<"a", "l", "l", "_", "u", "s", "e", "r", "s", ".", "c", "s", "v">>
stories_aggregate ==
  <<"a", "l", "l", "_", "s", "t", "o", "r", "i", "e", "s", ".", "c", "s", "v">>
ignore == {users_aggregate, stories_aggregate}

Cats == {users_dir, stories_dir}

\* The header lines written by the shard writers and passed to concat_csv.
UsersHeader ==
  <<"I", "D", ",", "K", "A", "R", "M", "A", ",", "C", "R", "E", "A", "T", "E", "D", ",",
    "S", "U", "B", "M", "I", "S", "S", "I", "O", "N", "S", LF>>
StoriesHeader ==
  <<"S", "C", "O", "R", "E", ",", "T", "I", "T", "L", "E", ",", "B", "Y", ",",
    "U", "R", "L", LF>>


-----------------------------------------------------------------------------
(* Records handed over by the fetch layer *)

\* Batches of users: each user answers get('id'), get('karma'), get('created')
\* and get('submitted').
UserBatches ==
  { << [id |-> <<"a", "l">>, karma |-> 10, created |-> 5, submitted |-> <<1, 2>>] >>,
    << [id |-> <<"a", "l">>, karma |-> 99, created |-> 5, submitted |-> <<1, 2, 3>>],
       [id |-> <<"b", Comma, Quote>>, karma |-> -1, created |-> 3, submitted |-> <<>>] >>,
    << [id |-> <<" ", "c", LF, "d">>, karma |-> 0, created |-> 12, submitted |-> <<7>>] >> }

\* Batches of stories: each story answers get_field_by_name for score, title,
\* by and url.
StoryBatches ==
  { << [score |-> 5, title |-> <<"T", "a">>, by |-> <<"b", "1">>, url |-> <<"x">>] >>,
    << [score |-> 7, title |-> <<"T", "b">>, by |-> <<"b", "1">>, url |-> <<"x">>],
       [score |-> 3, title |-> <<Comma, Quote>>, by |-> <<Quote, Comma, Comma>>,
        url |-> <<"y", Quote, " ">>] >>,
    << [score |-> 1, title |-> <<"a", LF, "c">>, by |-> <<"b", "2">>, url |-> <<"z">>] >> }

-----------------------------------------------------------------------------
(* Encoding of a record as one line *)

remove_quotes(text) == Remove(text, Quote)

remove_commas(text) == Remove(text, Comma)

\* Variant of remove_csv_chars: the quotes stay.
remove_commas_only(text) == Remove(text, Comma)

remove_csv_chars(text) == remove_commas(remove_quotes(text))

story_to_csv(story) ==
  LET cols == << IntToStr(story.score), story.title, story.by, story.url >>
      csv_cols == [i \in 1..Len(cols) |-> remove_csv_chars(cols[i])]
  IN Join(csv_cols, Comma)

user_to_csv(user) ==
  LET cols == << user.id, IntToStr(user.karma), IntToStr(user.created),
                 IntToStr(Len(user.submitted)) >>
      csv_cols == [i \in 1..Len(cols) |-> remove_csv_chars(cols[i])]
  IN Join(csv_cols, Comma)

ToCsv(cat, rec) == IF cat = users_dir THEN user_to_csv(rec) ELSE story_to_csv(rec)

HeaderOf(cat) == IF cat = users_dir THEN UsersHeader ELSE StoriesHeader

-----------------------------------------------------------------------------
(* Dates and paths *)

TwoDigits(n) == <<Digits[(n \div 10) + 1], Digits[(n % 10) + 1]>>

\* get_datetime(): the yyyy-mm-dd text of day number d of the clock (two
\* days to a month, so that shards spread over several month directories).
get_datetime(d) ==
  <<"2", "0", "2", "4", Dash>> \o TwoDigits(((d - 1) \div 2) + 1) \o <<Dash>>
    \o TwoDigits(((d - 1) % 2) + 1)

\* get_dir(filename): the directories yyyy/mm, as path components.
get_dir(filename) ==
  LET parts == Split(filename, Dash) IN <<parts[1], parts[2]>>

\* get_path(filename): yyyy/mm/filename, as path components.
get_path(filename) ==
  LET parts == Split(filename, Dash) IN <<parts[1], parts[2], filename>>

-----------------------------------------------------------------------------
(* The file system under a category root *)

\* A file: the directories from the root down to it, its name, its content,
\* and (history) the operation that wrote it and the records it was given.
\* A root is [state, files]: state is "ok", "unreadable" (the directory
\* cannot be listed but can be entered and written to) or "missing".
File(dir, name, content, by, recs) ==
  [dir |-> dir, name |-> name, content |-> content, by |-> by, recs |-> recs]

SamePath(f, dir, name) == f.dir = dir /\ f.name = name

Exists(files, dir, name) == \E i \in 1..Len(files) : SamePath(files[i], dir, name)

IndexOf(files, dir, name) == CHOOSE i \in 1..Len(files) : SamePath(files[i], dir, name)

\* The orders os.walk (top-down) can list a tree in: the root's own files
\* first, then directory by directory; the order inside a directory and the
\* order of the directories are up to the file system.
WalkOrder(files) ==
  /\ \A i, j \in 1..Len(files) : (i < j /\ files[j].dir = <<>>) => files[i].dir = <<>>
  /\ \A i, j, k \in 1..Len(files) :
       (i < j /\ j < k /\ files[i].dir = files[k].dir) => files[j].dir = files[i].dir

InsertAt(files, p, f) == SubSeq(files, 1, p - 1) \o <<f>> \o SubSeq(files, p, Len(files))

\* Variant of OpenWrite: append mode, an existing file keeps its content.
OpenAppend(files, f) ==
  IF Exists(files, f.dir, f.name)
  THEN {[files EXCEPT ![IndexOf(files, f.dir, f.name)].content = @ \o f.content]}
  ELSE {g \in {InsertAt(files, p, f) : p \in 1..(Len(files) + 1)} : WalkOrder(g)}

\* open(path, 'w') followed by the writes and the close: an existing file is
\* truncated and keeps its place in the listing, a new one takes any place
\* os.walk can give it.
OpenWrite(files, f) ==
  IF Exists(files, f.dir, f.name)
  THEN {[files EXCEPT ![IndexOf(files, f.dir, f.name)] = f]}
  ELSE {g \in {InsertAt(files, p, f) : p \in 1..(Len(files) + 1)} : WalkOrder(g)}

\* History: whether a merge completed since the tree last changed (anything
\* but the aggregate written by the merge itself), what it returned, and
\* whether a shard was rewritten since the merge before.
NoHist == [merged |-> FALSE, ret |-> 0, rewrote |-> FALSE]

\* What the last operation did (history): its name and outcome ("ok" or the
\* exception raised), the files of the root and the history before it, and
\* the operation's arguments, locals and return value.
NoResult == [op |-> "none", outcome |-> "ok", pre |-> <<>>, was |-> NoHist, recs |-> <<>>,
             csvs |-> <<>>, csv_lines |-> <<>>, ret |-> 0, value |-> <<>>]

Init ==
  /\ category \in Cats
  /\ today = 1
  /\ fs = [state |-> "ok", files |-> <<>>]
  /\ budget = MaxChanges
  /\ last = NoResult
  /\ hist = NoHist

Changed(rewrote) == [merged |-> FALSE, ret |-> 0, rewrote |-> hist.rewrote \/ rewrote]

\* The date changes between two runs.
Tick ==
  /\ today < MaxDays
  /\ today' = today + 1
  /\ last' = [NoResult EXCEPT !.op = "tick"]
  /\ UNCHANGED <<category, fs, budget, hist>>

\* The text written by write_stories_csv / write_users_csv: the header, then
\* one encoded line per record.
RECURSIVE ShardBody(_, _)
ShardBody(cat, recs) ==
  IF recs = <<>> THEN <<>>
  ELSE ToCsv(cat, recs[1]) \o <<LF>> \o ShardBody(cat, Tail(recs))

ShardText(cat, recs) == HeaderOf(cat) \o ShardBody(cat, recs)

\* write_stories_csv(stories) / write_users_csv(users): makedirs creates the
\* month directory with its parents, the root included.
WriteCsv(cat, recs) ==
  LET filepath == get_datetime(today) \o ext_csv
      direct == get_dir(filepath)
      fullpath == get_path(filepath)
      f == File(direct, fullpath[Len(fullpath)], ShardText(cat, recs), "write", recs)
  IN /\ category = cat
     /\ budget > 0
     /\ budget' = budget - 1
     /\ \E files \in OpenWrite(fs.files, f) :
          fs' = [state |-> IF fs.state = "missing" THEN "ok" ELSE fs.state,
                 files |-> files]
     /\ last' = [NoResult EXCEPT !.op = "write", !.recs = recs, !.pre = fs.files]
     /\ hist' = Changed(Exists(fs.files, direct, f.name))
     /\ UNCHANGED <<category, today>>

write_users_csv == \E users \in UserBatches : WriteCsv(users_dir, users)

write_stories_csv == \E stories \in StoryBatches : WriteCsv(stories_dir, stories)

-----------------------------------------------------------------------------
(* The environment: what else happens to a category root *)

\* Names of files put into a root by hand: one with the shard marker in its
\* name, one without (the .out files of top.py).
HandNames == { <<"x", ".", "c", "s", "v">>, <<"x", ".", "o", "u", "t">> }

\* A hand-made file: a header, a one-column line, an empty line, a
\* two-column line.
HandText == <<"I", "D", LF, "z", LF, LF, "a", "l", Comma, "1", LF>>

PlaceFile ==
  \E name \in HandNames :
    /\ budget > 0
    /\ fs.state # "missing"
    /\ budget' = budget - 1
    /\ \E files \in OpenWrite(fs.files, File(<<>>, name, HandText, "hand", <<>>)) :
         fs' = [fs EXCEPT !.files = files]
    /\ last' = [NoResult EXCEPT !.op = "place", !.pre = fs.files]
    /\ hist' = Changed(FALSE)
    /\ UNCHANGED <<category, today>>

\* chmod of the root: its read permission is taken away or given back.
Chmod ==
  /\ budget > 0
  /\ fs.state # "missing"
  /\ budget' = budget - 1
  /\ fs' = [fs EXCEPT !.state = IF fs.state = "ok" THEN "unreadable" ELSE "ok"]
  /\ last' = [NoResult EXCEPT !.op = "chmod", !.pre = fs.files]
  /\ hist' = Changed(FALSE)
  /\ UNCHANGED <<category, today>>

\* The root is removed with everything under it.
RmTree ==
  /\ budget > 0
  /\ fs.state # "missing"
  /\ budget' = budget - 1
  /\ fs' = [state |-> "missing", files |-> <<>>]
  /\ last' = [NoResult EXCEPT !.op = "rmtree", !.pre = fs.files]
  /\ hist' = Changed(FALSE)
  /\ UNCHANGED <<category, today>>

-----------------------------------------------------------------------------
(* Shard discovery and merge *)

\* os.walk(directory) with its default onerror=None: a directory that cannot
\* be listed (or is not there) is skipped without an error.
os_walk(root) == IF root.state = "ok" THEN root.files ELSE <<>>

\* Variant of recursive_walk: the aggregate names are not left out.
walk_every_csv(root) == SelectSeq(os_walk(root), LAMBDA f : HasSub(f.name, ext_csv))

\* recursive_walk(directory): the files whose name holds the shard marker
\* and is not one of the aggregate names, in os.walk order.
recursive_walk(root) ==
  SelectSeq(os_walk(root), LAMBDA f : HasSub(f.name, ext_csv) /\ f.name \notin ignore)

\* The lines of a shard that concat_csv treats as data: all but the first.
DataLines(content) ==
  LET lines == ReadLines(content) IN SubSeq(lines, 2, Len(lines))

\* The key built by concat_csv for the columns of a line (sort_col and
\* volatile_cols count from 0): the column sort_col, then every other column
\* that is not volatile. Requires the column sort_col to be there.
RECURSIVE KeyFrom(_, _, _, _)
KeyFrom(split_line, z, sort_col, volatile_cols) ==
  IF z >= Len(split_line) THEN <<>>
  ELSE (IF z \in volatile_cols \/ z = sort_col THEN <<>> ELSE split_line[z + 1])
         \o KeyFrom(split_line, z + 1, sort_col, volatile_cols)

\* Variant of primary_key: the volatile columns are part of the key.
key_with_volatile(split_line, sort_col, volatile_cols) ==
  split_line[sort_col + 1] \o KeyFrom(split_line, 0, sort_col, {})

primary_key(split_line, sort_col, volatile_cols) ==
  split_line[sort_col + 1] \o KeyFrom(split_line, 0, sort_col, volatile_cols)

\* Variant of Store: a key already in the table keeps its line.
StoreFirst(csv_lines, key, stripped_line) ==
  [k \in (DOMAIN csv_lines) \cup {key} |->
     IF k \in DOMAIN csv_lines THEN csv_lines[k] ELSE stripped_line]

\* csv_lines[primary_key] = stripped_line
Store(csv_lines, key, stripped_line) ==
  [k \in (DOMAIN csv_lines) \cup {key} |->
     IF k = key THEN stripped_line ELSE csv_lines[k]]

\* Variant of AddLines: a line without the column sort_col is passed over.
RECURSIVE AddLinesSkipShort(_, _, _, _, _)
AddLinesSkipShort(acc, lines, i, sort_col, volatile_cols) ==
  IF i > Len(lines) THEN acc
  ELSE LET stripped_line == Strip(lines[i])
           split_line == Split(stripped_line, Comma)
       IN IF sort_col >= Len(split_line)
          THEN AddLinesSkipShort(acc, lines, i + 1, sort_col, volatile_cols)
          ELSE AddLinesSkipShort(
                 [acc EXCEPT !.csv_lines =
                    Store(acc.csv_lines,
                          primary_key(split_line, sort_col, volatile_cols),
                          stripped_line)],
                 lines, i + 1, sort_col, volatile_cols)

\* The loop of concat_csv over the data lines of one shard, from line i on:
\* the table after it, or an IndexError at the first line that has no
\* column sort_col.
RECURSIVE AddLines(_, _, _, _, _)
AddLines(acc, lines, i, sort_col, volatile_cols) ==
  IF acc.error \/ i > Len(lines) THEN acc
  ELSE LET stripped_line == Strip(lines[i])
           split_line == Split(stripped_line, Comma)
       IN IF sort_col >= Len(split_line)
          THEN [acc EXCEPT !.error = TRUE]
          ELSE AddLines(
                 [acc EXCEPT !.csv_lines =
                    Store(acc.csv_lines,
                          primary_key(split_line, sort_col, volatile_cols),
                          stripped_line)],
                 lines, i + 1, sort_col, volatile_cols)

\* The loop of concat_csv over the discovered shards.
RECURSIVE AddShards(_, _, _, _, _)
AddShards(acc, csvs, n, sort_col, volatile_cols) ==
  IF acc.error \/ n > Len(csvs) THEN acc
  ELSE AddShards(AddLines(acc, DataLines(csvs[n].content), 1, sort_col, volatile_cols),
                 csvs, n + 1, sort_col, volatile_cols)

\* sorted_lines of concat_csv
sorted_lines(csv_lines) ==
  LET sorted_keys == Sorted(DOMAIN csv_lines)
  IN [i \in 1..Len(sorted_keys) |-> csv_lines[sorted_keys[i]]]

RECURSIVE LinesText(_)
LinesText(lines) ==
  IF lines = <<>> THEN <<>> ELSE lines[1] \o <<LF>> \o LinesText(Tail(lines))

\* What concat_csv writes, and the count it returns.
AggregateText(header, lines) == header \o LinesText(lines)

\* Variant of Wrote: the header is counted too.
WroteWithHeader(lines) == Len(lines) + 1

Wrote(lines) == Len(lines)

\* concat_csv(dir, out, header, sort_col, volatile_cols), on the root d
concat_csv(d, out, header, sort_col, volatile_cols) ==
  LET csvs == recursive_walk(fs)
      acc == AddShards([error |-> FALSE, csv_lines |-> <<>>], csvs, 1,
                       sort_col, volatile_cols)
      lines == sorted_lines(acc.csv_lines)
      done == [NoResult EXCEPT !.op = "concat", !.pre = fs.files, !.csvs = csvs]
  IN /\ category = d
     /\ UNCHANGED <<category, today, budget>>
     /\ IF acc.error
        THEN \* split_line[sort_col] raised; the output was not opened yet
             /\ last' = [done EXCEPT !.outcome = "IndexError"]
             /\ UNCHANGED <<fs, hist>>
        ELSE IF fs.state = "missing"
        THEN \* open(os.path.join(dir, out), 'w') raises, outside the try
             /\ last' = [done EXCEPT !.outcome = "IOError", !.csv_lines = acc.csv_lines]
             /\ UNCHANGED <<fs, hist>>
        ELSE /\ \E files \in OpenWrite(fs.files,
                                       File(<<>>, out, AggregateText(header, lines),
                                            "concat", <<>>)) :
                  fs' = [fs EXCEPT !.files = files]
             /\ last' = [done EXCEPT !.csv_lines = acc.csv_lines, !.ret = Wrote(lines),
                                     !.was = hist]
             /\ hist' = [merged |-> TRUE, ret |-> Wrote(lines), rewrote |-> FALSE]

concat_users == concat_csv(users_dir, users_aggregate, UsersHeader, 0, {1, 3})

concat_stories == concat_csv(stories_dir, stories_aggregate, StoriesHeader, 3, {0, 1})

-----------------------------------------------------------------------------
(* Reading an aggregate back *)

\* mapping[key] = value
Put(mapping, key, value) ==
  [k \in (DOMAIN mapping) \cup {key} |-> IF k = key THEN value ELSE mapping[k]]

\* [l.strip() for l in line.split(',')]
StrippedCols(line) ==
  LET cols == Split(line, Comma) IN [i \in 1..Len(cols) |-> Strip(cols[i])]

\* The loop of get_all_stories from line i on: every line is entered under
\* its second column; a line without one raises IndexError.
RECURSIVE StoriesFrom(_, _, _)
StoriesFrom(acc, lines, i) ==
  IF acc.error \/ i > Len(lines) THEN acc
  ELSE IF Len(Split(lines[i], Comma)) < 2 THEN [acc EXCEPT !.error = TRUE]
  ELSE StoriesFrom([acc EXCEPT !.map = Put(acc.map, Split(lines[i], Comma)[2],
                                              StrippedCols(lines[i]))],
                   lines, i + 1)

\* The loop of get_all_users_full from line i on: the first line (n == 1) is
\* passed over, every other line is entered under its first column.
RECURSIVE UsersFullFrom(_, _, _)
UsersFullFrom(users, lines, i) ==
  IF i > Len(lines) THEN users
  ELSE IF i = 1 THEN UsersFullFrom(users, lines, i + 1)
  ELSE UsersFullFrom(Put(users, Split(lines[i], Comma)[1], StrippedCols(lines[i])),
                     lines, i + 1)

\* The loop of get_all_users from line i on: every line is entered under its
\* first column.
RECURSIVE UsersFrom(_, _, _)
UsersFrom(users, lines, i) ==
  IF i > Len(lines) THEN users
  ELSE UsersFrom(Put(users, Split(lines[i], Comma)[1], Split(lines[i], Comma)[1]),
                 lines, i + 1)

\* open(file, 'r') of the aggregate of the root followed
CanOpen(name) == fs.state # "missing" /\ Exists(fs.files, <<>>, name)

Content(name) == fs.files[IndexOf(fs.files, <<>>, name)].content

Read(op, outcome, value) ==
  /\ last' = [NoResult EXCEPT !.op = op, !.outcome = outcome, !.value = value,
                              !.pre = fs.files]
  /\ UNCHANGED <<category, today, fs, budget, hist>>

get_all_stories ==
  /\ category = stories_dir
  /\ IF ~CanOpen(stories_aggregate) THEN Read("get_all_stories", "IOError", <<>>)
     ELSE LET acc == StoriesFrom([error |-> FALSE, map |-> <<>>],
                                 ReadLines(Content(stories_aggregate)), 1)
          IN IF acc.error THEN Read("get_all_stories", "IndexError", <<>>)
             ELSE Read("get_all_stories", "ok", acc.map)

get_all_users_full ==
  /\ category = users_dir
  /\ IF ~CanOpen(users_aggregate) THEN Read("get_all_users_full", "IOError", <<>>)
     ELSE Read("get_all_users_full", "ok",
               UsersFullFrom(<<>>, ReadLines(Content(users_aggregate)), 1))

get_all_users ==
  /\ category = users_dir
  /\ IF ~CanOpen(users_aggregate) THEN Read("get_all_users", "IOError", <<>>)
     ELSE Read("get_all_users", "ok",
               UsersFrom(<<>>, ReadLines(Content(users_aggregate)), 1))

Next ==
  \/ Tick
  \/ write_users_csv
  \/ write_stories_csv
  \/ PlaceFile
  \/ Chmod
  \/ RmTree
  \/ concat_users
  \/ concat_stories
  \/ get_all_stories
  \/ get_all_users_full
  \/ get_all_users

Spec == Init /\ [][Next]_vars

\* Runs of the program alone: shard writes on successive days and merges,
\* nothing else touching the tree.
NextRuns ==
  \/ Tick
  \/ write_users_csv
  \/ write_stories_csv
  \/ concat_users
  \/ concat_stories

SpecRuns == Init /\ [][NextRuns]_vars

-----------------------------------------------------------------------------
(* Vocabulary of the properties *)

\* The shipped configuration of the root followed: the aggregate's name, the
\* identity column and the volatile columns (counted from 0).
AggName == IF category = users_dir THEN users_aggregate ELSE stories_aggregate
IdentityIndex == IF category = users_dir THEN 0 ELSE 3
VolatileIndices == IF category = users_dir THEN {1, 3} ELSE {0, 1}

\* The last operation was a merge that ran to its end.
MergeDone == last.op = "concat" /\ last.outcome = "ok"

ChopLF(line) ==
  IF line # <<>> /\ line[Len(line)] = LF THEN SubSeq(line, 1, Len(line) - 1) ELSE line

\* The data rows of a file: its lines after the first, without line breaks.
Rows(content) ==
  LET d == DataLines(content) IN [i \in 1..Len(d) |-> ChopLF(d[i])]

HasAgg(files) == Exists(files, <<>>, AggName)
AggIn(files) == files[IndexOf(files, <<>>, AggName)].content
AggRows == Rows(AggIn(fs.files))

\* The stripped data lines of the shards, shard after shard, line after line.
RECURSIVE StrippedLines(_)
StrippedLines(csvs) ==
  IF csvs = <<>> THEN <<>>
  ELSE LET d == DataLines(csvs[1].content)
       IN [i \in 1..Len(d) |-> Strip(d[i])] \o StrippedLines(Tail(csvs))

\* The lines the last merge processed, in the order it processed them.
Processed == StrippedLines(last.csvs)

Columns(line) == Split(line, Comma)

KeyOfLine(line) == primary_key(Columns(line), IdentityIndex, VolatileIndices)

Keys(lines) == [i \in 1..Len(lines) |-> KeyOfLine(lines[i])]

KeySet(lines) == Range(Keys(lines))

-----------------------------------------------------------------------------
(* C1 *)

\* C1: after a merge that completes, the aggregate holds exactly one row per
\* composite key of the data lines of the discovered shards, and the row of a
\* key is the stripped line processed last with that key (shards in discovery
\* order, lines in file order).
C1_LastWriteWins ==
  MergeDone =>
    LET P == Processed
        K == Keys(P)
        A == AggRows
        KA == Keys(A)
        IsLast(i) == \A j \in (i + 1)..Len(P) : K[j] # K[i]
    IN /\ \A i \in 1..Len(P) : IsLast(i) => \E r \in 1..Len(A) : A[r] = P[i]
       /\ \A r \in 1..Len(A) : \E i \in 1..Len(P) : IsLast(i) /\ P[i] = A[r]
       /\ \A r, q \in 1..Len(A) : KA[r] = KA[q] => r = q

\* Two shards hold different lines with the same key, and the merge is done.
C1_Witness ==
  /\ MergeDone
  /\ Len(last.csvs) >= 2
  /\ \E i, j \in 1..Len(Processed) :
       /\ i < j
       /\ Processed[i] # Processed[j]
       /\ KeyOfLine(Processed[i]) = KeyOfLine(Processed[j])
       /\ Processed[i] \in Range(Rows(last.csvs[1].content))

-----------------------------------------------------------------------------
(* C2 *)

\* C2: the keys of the aggregate's data rows, in file order, are the distinct
\* keys of the discovered shards' data lines in strictly ascending
\* lexicographic order: the same whatever order the shards were discovered in.
C2_SortedByKey ==
  MergeDone =>
    LET ks == Keys(AggRows)
    IN /\ \A r \in 1..(Len(ks) - 1) : StrLess(ks[r], ks[r + 1])
       /\ Range(ks) = KeySet(Processed)

\* A merge is done over two shards that were processed in descending key order.
C2_Witness ==
  /\ MergeDone
  /\ Len(last.csvs) >= 2
  /\ Len(AggRows) >= 2
  /\ \E i, j \in 1..Len(Processed) :
       i < j /\ StrLess(KeyOfLine(Processed[j]), KeyOfLine(Processed[i]))

-----------------------------------------------------------------------------
(* C3 *)

\* C3: a merge that follows a completed merge with no change to the tree in
\* between writes the same aggregate content and returns the same count; and
\* no merge ever reads an aggregate file as a shard.
C3_Idempotent ==
  /\ last.op = "concat" =>
       \A i \in 1..Len(last.csvs) : last.csvs[i].by # "concat"
  /\ (MergeDone /\ last.was.merged) =>
       /\ HasAgg(last.pre)
       /\ AggIn(fs.files) = AggIn(last.pre)
       /\ last.ret = last.was.ret

\* A second merge in a row is done, over shards, with the first one's
\* aggregate lying in the root.
C3_Witness ==
  /\ MergeDone
  /\ last.was.merged
  /\ last.ret >= 2
  /\ Len(last.csvs) >= 2

-----------------------------------------------------------------------------
(* C7 *)

\* C7: a merge that completes returns the number of data rows of the
\* aggregate it wrote, which is the number of distinct keys of the discovered
\* shards' data lines; with no shard it writes the header alone and returns 0.
C7_RowCount ==
  MergeDone =>
    /\ last.ret = Len(AggRows)
    /\ last.ret = Cardinality(KeySet(Processed))
    /\ last.csvs = <<>> => (AggIn(fs.files) = HeaderOf(category) /\ last.ret = 0)

\* A merge is done that returned fewer rows than it processed lines.
C7_Witness ==
  /\ MergeDone
  /\ last.ret >= 2
  /\ last.ret < Len(Processed)

\* A merge is done in an existing root without shards.
C7_WitnessEmpty ==
  /\ MergeDone
  /\ fs.state = "ok"
  /\ last.csvs = <<>>
  /\ last.ret = 0

-----------------------------------------------------------------------------
(* C4 *)

\* The column numbers (from 0) below n that are neither the identity column
\* nor volatile, ascending.
NonVolatile(n) ==
  SelectSeq([i \in 1..n |-> i - 1],
            LAMBDA z : z \notin VolatileIndices /\ z # IdentityIndex)

RECURSIVE Pick(_, _)
Pick(cols, idx) ==
  IF idx = <<>> THEN <<>> ELSE cols[idx[1] + 1] \o Pick(cols, Tail(idx))

\* The composite key as the claim words it.
CompositeKey(cols) == cols[IdentityIndex + 1] \o Pick(cols, NonVolatile(Len(cols)))

\* Two lines with the same columns, the volatile ones apart.
SameButVolatile(a, b) ==
  /\ Len(Columns(a)) = Len(Columns(b))
  /\ \A z \in 1..Len(Columns(a)) :
       (z - 1) \notin VolatileIndices => Columns(a)[z] = Columns(b)[z]

\* C4: the key under which concat_csv enters a line is the identity column
\* followed, without separator, by every column that is neither the identity
\* column nor volatile, in ascending order: ID+CREATED for a users row,
\* URL+BY for a stories row; lines that differ in volatile columns only have
\* one key, and at most one of them is in the aggregate.
C4_CompositeKey ==
  MergeDone =>
    LET P == Processed
        K == Keys(P)
        A == Range(AggRows)
    IN /\ DOMAIN last.csv_lines = {CompositeKey(Columns(P[i])) : i \in 1..Len(P)}
       /\ \A k \in DOMAIN last.csv_lines :
            LET cols == Columns(last.csv_lines[k])
            IN /\ k = CompositeKey(cols)
               /\ Len(cols) = 4 =>
                    k = IF category = users_dir THEN cols[1] \o cols[3]
                        ELSE cols[4] \o cols[3]
       /\ \A i, j \in 1..Len(P) :
            SameButVolatile(P[i], P[j]) =>
              /\ K[i] = K[j]
              /\ P[i] # P[j] => ~(P[i] \in A /\ P[j] \in A)

\* A stories merge is done over two four-column rows that differ in SCORE and
\* TITLE only.
C4_Witness ==
  /\ MergeDone
  /\ category = stories_dir
  /\ \E i, j \in 1..Len(Processed) :
       /\ Processed[i] # Processed[j]
       /\ Len(Columns(Processed[i])) = 4
       /\ SameButVolatile(Processed[i], Processed[j])
       /\ Processed[j] \in Range(AggRows)

-----------------------------------------------------------------------------
(* C5 *)

ReadOps == {"get_all_stories", "get_all_users_full", "get_all_users"}

\* The column (from 1) a read mode enters a line under.
EntryColumn(op) == IF op = "get_all_stories" THEN 2 ELSE 1

\* C5: the header line is never treated as data: a merge has no table entry
\* that comes from a shard's first line, and a read mode returns no entry
\* that comes from the aggregate's first line (every key it returns is the
\* entry column of a data line).
C5_HeaderNeverData ==
  /\ MergeDone =>
       \A n \in 1..Len(last.csvs) :
         LET head == Strip(ReadLines(last.csvs[n].content)[1])
         IN head \in Range(AggRows) => head \in Range(Processed)
  /\ (last.op \in ReadOps /\ last.outcome = "ok") =>
       LET lines == ReadLines(AggIn(fs.files))
       IN \A k \in DOMAIN last.value :
            \E i \in 2..Len(lines) :
              /\ Len(Columns(lines[i])) >= EntryColumn(last.op)
              /\ Columns(lines[i])[EntryColumn(last.op)] = k

-----------------------------------------------------------------------------
(* C6 *)

\* The four input fields of a record, as text.
Fields(rec) ==
  IF category = users_dir
  THEN <<rec.id, IntToStr(rec.karma), IntToStr(rec.created), IntToStr(Len(rec.submitted))>>
  ELSE <<IntToStr(rec.score), rec.title, rec.by, rec.url>>

Sanitized(field) == SelectSeq(field, LAMBDA c : c \notin {Comma, Quote})

\* The four fields with every comma and quote deleted, joined by 3 commas.
ExpectedLine(rec) ==
  LET f == Fields(rec)
  IN Sanitized(f[1]) \o <<Comma>> \o Sanitized(f[2]) \o <<Comma>>
       \o Sanitized(f[3]) \o <<Comma>> \o Sanitized(f[4])

ExpectedRows(recs) == [i \in 1..Len(recs) |-> ExpectedLine(recs[i])]

RECURSIVE ExpectedBody(_)
ExpectedBody(recs) ==
  IF recs = <<>> THEN <<>> ELSE ExpectedLine(recs[1]) \o <<LF>> \o ExpectedBody(Tail(recs))

NoLineBreak(recs) ==
  \A i \in 1..Len(recs) : \A n \in 1..4 : LF \notin Range(Fields(recs[i])[n])

Written(files) == {i \in 1..Len(files) : files[i].by = "write"}

FourCleanFields(row) == Len(Columns(row)) = 4 /\ Quote \notin Range(row)

\* C6 as claimed: for all inputs, every data line of a written shard is the
\* 4 input fields with commas and quotes deleted, joined by 3 commas, and so
\* is every row of an aggregate merged from written shards.
C6_AsClaimed ==
  /\ \A i \in Written(fs.files) :
       Rows(fs.files[i].content) = ExpectedRows(fs.files[i].recs)
  /\ (MergeDone /\ \A n \in 1..Len(last.csvs) : last.csvs[n].by = "write") =>
       \A r \in 1..Len(AggRows) :
         /\ FourCleanFields(AggRows[r])
         /\ \E n \in 1..Len(last.csvs) : \E i \in 1..Len(last.csvs[n].recs) :
              AggRows[r] = ExpectedLine(last.csvs[n].recs[i])

\* C6 as amended: a written shard is the header followed, record by record,
\* by the 4 fields with commas and quotes deleted, joined by 3 commas, and a
\* line break; when no field holds a line break these are its data lines,
\* each of 4 fields without comma or quote, and every row of an aggregate
\* merged from such shards is one of these lines with the whitespace at its
\* two ends removed, again 4 fields without comma or quote.
C6_Sanitized ==
  /\ \A i \in Written(fs.files) :
       LET f == fs.files[i]
       IN /\ f.content = HeaderOf(category) \o ExpectedBody(f.recs)
          /\ NoLineBreak(f.recs) =>
               /\ Rows(f.content) = ExpectedRows(f.recs)
               /\ \A r \in 1..Len(f.recs) : FourCleanFields(Rows(f.content)[r])
  /\ (/\ MergeDone
      /\ \A n \in 1..Len(last.csvs) :
           last.csvs[n].by = "write" /\ NoLineBreak(last.csvs[n].recs)) =>
       LET A == AggRows
       IN \A r \in 1..Len(A) :
            /\ FourCleanFields(A[r])
            /\ \E n \in 1..Len(last.csvs) : \E i \in 1..Len(last.csvs[n].recs) :
                 A[r] = Strip(ExpectedLine(last.csvs[n].recs[i]))

\* A merge is done over written shards, one of them holding a record with a
\* field made of commas and quotes only, whose row is in the aggregate.
C6_Witness ==
  /\ MergeDone
  /\ last.csvs # <<>>
  /\ \A n \in 1..Len(last.csvs) :
       last.csvs[n].by = "write" /\ NoLineBreak(last.csvs[n].recs)
  /\ \E n \in 1..Len(last.csvs) : \E i \in 1..Len(last.csvs[n].recs) :
       LET rec == last.csvs[n].recs[i]
       IN /\ \E c \in 1..4 :
               /\ Fields(rec)[c] # <<>>
               /\ Range(Fields(rec)[c]) \subseteq {Comma, Quote}
          /\ Strip(ExpectedLine(rec)) \in Range(AggRows)

-----------------------------------------------------------------------------
(* C8 *)

\* C8: a merge of a root that cannot be read (missing, or not listable)
\* raises CsvIoError and leaves the tree as it was: no aggregate is written.
C8_DiscoveryFailureAborts ==
  (last.op = "concat" /\ fs.state # "ok") =>
    (last.outcome = "CsvIoError" /\ fs.files = last.pre)

-----------------------------------------------------------------------------
(* C9 *)

\* The number of columns the configured indices ask for.
RequiredColumns ==
  LET idx == VolatileIndices \cup {IdentityIndex}
  IN (CHOOSE m \in idx : \A z \in idx : z <= m) + 1

\* C9 as claimed: a merge that meets a data line with fewer columns than the
\* configured indices ask for raises IndexError and writes nothing.
C9_AsClaimed ==
  (/\ last.op = "concat"
   /\ \E i \in 1..Len(Processed) : Len(Columns(Processed[i])) < RequiredColumns) =>
    (last.outcome = "IndexError" /\ fs.files = last.pre)

\* C9 as amended: a merge raises IndexError exactly when a data line of a
\* discovered shard has no identity column (at most identity_index columns),
\* and then it writes nothing; this happens for stories (fewer than 4
\* columns) and never for users (identity 0), where a shorter line is entered
\* under its key like any other line.
C9_IdentityColumnMissing ==
  last.op = "concat" =>
    LET P == Processed
    IN /\ last.outcome = "IndexError" <=>
            \E i \in 1..Len(P) : Len(Columns(P[i])) <= IdentityIndex
       /\ last.outcome = "IndexError" => fs.files = last.pre
       /\ category = users_dir => last.outcome # "IndexError"
       /\ MergeDone => \A i \in 1..Len(P) : KeyOfLine(P[i]) \in DOMAIN last.csv_lines

\* A stories merge was aborted by a short line, and the aggregate of an
\* earlier merge is still there.
C9_Witness ==
  /\ last.op = "concat"
  /\ last.outcome = "IndexError"
  /\ category = stories_dir
  /\ HasAgg(fs.files)
  /\ Len(AggRows) >= 1

\* A users merge is done that entered a line of fewer than 4 columns.
C9_WitnessUsers ==
  /\ MergeDone
  /\ category = users_dir
  /\ \E i \in 1..Len(Processed) :
       /\ Len(Columns(Processed[i])) < RequiredColumns
       /\ Processed[i] \in Range(AggRows)

-----------------------------------------------------------------------------
(* C10 *)

\* The shard written on the current date.
TodayName == get_datetime(today) \o ext_csv

\* C10: a shard write leaves today's shard with the header and the lines of
\* the records just given, nothing of its earlier content, and every other
\* file as it was; after a merge the keys of the aggregate's rows are the
\* keys of the data lines of the shards now on disk.
C10_RebuiltFromShards ==
  /\ last.op = "write" =>
       /\ \E i \in 1..Len(fs.files) :
            /\ fs.files[i].name = TodayName
            /\ fs.files[i].content = HeaderOf(category) \o ExpectedBody(last.recs)
       /\ \A j \in 1..Len(last.pre) :
            last.pre[j].name # TodayName => last.pre[j] \in Range(fs.files)
       /\ Len(fs.files) <= Len(last.pre) + 1
  /\ MergeDone =>
       KeySet(AggRows) =
         KeySet(StrippedLines(SelectSeq(fs.files, LAMBDA f : f.by = "write")))

\* A merge is done after a shard was rewritten, and a key of the aggregate of
\* the merge before is gone.
C10_Witness ==
  /\ MergeDone
  /\ last.was.rewrote
  /\ HasAgg(last.pre)
  /\ \E k \in KeySet(Rows(AggIn(last.pre))) : k \notin KeySet(AggRows)
  /\ Len(AggRows) >= 1

=============================================================================
